---- MODULE Spec2Model ----
(***************************************************************************)
(* Model of yarrow/base.py: the Analysis (graph) / Component (node) builder, *)
(* the constraint expansion, the operator lowering, the value codec, the    *)
(* active-context slot and the privacy_usage helper.                        *)
(*                                                                          *)
(* Python objects live in two heaps: `heap` holds the Component objects in  *)
(* the order they were allocated, `analyses` the Analysis objects.  A       *)
(* reference is an index into a heap.  A raised exception is the `err`      *)
(* field of the execution state threaded through a call.                    *)
(***************************************************************************)
EXTENDS Integers, Sequences, FiniteSets, TLC

VARIABLES
    context,    \* the module-level `context` slot: NoAnalysis or an Analysis
    analyses,   \* Analysis objects
    heap,       \* Component objects
    datasets,   \* Dataset objects: the heap index of each Dataset.component
    scopes,     \* the `with` blocks the caller has open, innermost last
    call,       \* the call SpecCall or SpecRelease makes: inputs and outcome
    codec,      \* value codec: input value, format, encoding, decoding
    usage       \* privacy_usage: epsilon, delta, result

vars == <<context, analyses, heap, datasets, scopes, call, codec, usage>>

----------------------------------------------------------------------------
(* Bounds *)

MaxNodes == 2        \* a caller with this many Components makes no more
MaxAnalyses == 2     \* Analysis objects allocated
MaxDepth == 2        \* nested `with` blocks
MaxLen == 2          \* length of a list handed to the codec or privacy_usage

----------------------------------------------------------------------------
(* Python values *)

NoAnalysis == 0                     \* `None` where an Analysis is expected
NoneId == -1                        \* `None` where a component_id is expected
Unset == -1                         \* attribute `_context` not yet assigned
FormatNone == "<None>"              \* value_format=None

\* A Python value handed to the library.  Numbers, strings and booleans are
\* written as text; dtype is the Python type of the elements of an array, nd
\* its nesting depth (0: a bare scalar x, 1: a list xs, 2: a list of rows xss).
PyValue(py, dtype, nd, x, xs, xss, items, cols) ==
    [py |-> py, dtype |-> dtype, nd |-> nd, x |-> x, xs |-> xs, xss |-> xss,
     items |-> items, cols |-> cols]
Scalar(dtype, x) == PyValue("array", dtype, 0, x, <<>>, <<>>, <<>>, <<>>)
Array1(dtype, xs) == PyValue("array", dtype, 1, "", xs, <<>>, <<>>, <<>>)
Array2(dtype, xss) == PyValue("array", dtype, 2, "", <<>>, xss, <<>>, <<>>)
\* a dict from str to values
Dict(items) == PyValue("dict", "", 0, "", <<>>, <<>>, items, <<>>)
\* a list of columns, each a one-dimensional list or NoneValue
Jagged(cols) == PyValue("jagged", "", 0, "", <<>>, <<>>, <<>>, cols)
NoneValue == PyValue("None", "", 0, "", <<>>, <<>>, <<>>, <<>>)

\* What a caller passes where a Component is expected: None, a Component,
\* or any other value.
None == [t |-> "none", ref |-> 0, val |-> NoneValue]
NodeRef(i) == [t |-> "node", ref |-> i, val |-> NoneValue]
Bare(x) == [t |-> "value", ref |-> 0, val |-> x]

Ok == ""

----------------------------------------------------------------------------
(* privacy_usage.  An argument is None, a number or a list of numbers. *)

Absent == [t |-> "none", v |-> <<>>]
Num(x) == [t |-> "num", v |-> <<x>>]
List(xs) == [t |-> "list", v |-> xs]

\* lines 18-22: upgrade to a list unless it is one already (or None)
upgrade(a) == IF a.t = "num" THEN List(a.v) ELSE a

Min(a, b) == IF a <= b THEN a ELSE b

\* A zip that runs to the end of its first list, filling in "0" for what the
\* second lacks; PrivacyUsagePairs tells it from zip.
zip_pad(xs, ys) ==
    [i \in 1..Len(xs) |-> <<xs[i], IF i <= Len(ys) THEN ys[i] ELSE "0">>]

\* zip(epsilon, delta) stops at the end of the shorter list
zip(xs, ys) == [i \in 1..Min(Len(xs), Len(ys)) |-> <<xs[i], ys[i]>>]

DistanceApproximate(e, d) == [distance |-> "approximate", epsilon |-> e, delta |-> d]
DistancePure(e) == [distance |-> "pure", epsilon |-> e, delta |-> ""]

privacy_usage(epsilon0, delta0) ==
    LET epsilon == upgrade(epsilon0)
        delta == upgrade(delta0)
    IN IF epsilon.t # "none" /\ delta.t # "none"
       THEN LET pairs == zip(epsilon.v, delta.v)
            IN List([i \in 1..Len(pairs) |-> DistanceApproximate(pairs[i][1], pairs[i][2])])
       ELSE IF epsilon.t # "none" /\ delta.t = "none"
       THEN List([i \in 1..Len(epsilon.v) |-> DistancePure(epsilon.v[i])])
       ELSE Absent

----------------------------------------------------------------------------
(* Value codec: Analysis._serialize_value_proto, Analysis._parse_value_proto *)
(* An encoding result is [err, proto]; a message is a record whose `kind`   *)
(* is the field of value_pb2.Value that is set.                             *)

\* numpy's scalar type of np.array(value).dtype.type
DtypeType(dtype) ==
    CASE dtype = "bool" -> "numpy.bool_"
      [] dtype = "int" -> "numpy.int64"
      [] dtype = "float" -> "numpy.float64"
      [] dtype = "str" -> "numpy.str_"

\* The dict of lines 316-322.  Its first key, np.bool, is Python's own bool,
\* which is not the numpy.bool_ a boolean array reports.
data_type ==
    [k \in {"bool", "numpy.int64", "numpy.float64", "numpy.bytes_", "numpy.str_"} |->
        CASE k = "bool" -> "bool"
          [] k = "numpy.int64" -> "i64"
          [] k = "numpy.float64" -> "f64"
          [] k = "numpy.bytes_" -> "string"
          [] k = "numpy.str_" -> "string"]

\* the element type a repeated field of the message hands back
ElementType(field) ==
    CASE field = "bool" -> "bool"
      [] field = "i64" -> "int"
      [] field = "f64" -> "float"
      [] field = "string" -> "str"

RECURSIVE Concat(_)
Concat(rows) == IF rows = <<>> THEN <<>> ELSE Head(rows) \o Concat(Tail(rows))

\* np.array(value).shape and .flatten()
shape(value) ==
    CASE value.nd = 0 -> <<>>
      [] value.nd = 1 -> <<Len(value.xs)>>
      [] value.nd = 2 -> <<Len(value.xss), Len(value.xss[1])>>
flatten(value) ==
    CASE value.nd = 0 -> <<value.x>>
      [] value.nd = 1 -> value.xs
      [] value.nd = 2 -> Concat(value.xss)

\* np.array(data).reshape(shape) for a shape of two dimensions
reshape(data, shp) ==
    [i \in 1..shp[1] |-> SubSeq(data, (i - 1) * shp[2] + 1, i * shp[2])]

\* A value_pb2.Value message: `kind` is the field that is set.
Message(kind, shp, order, dt, flat, entries, columns) ==
    [kind |-> kind, shape |-> shp, order |-> order, data_type |-> dt,
     flattened |-> flat, entries |-> entries, columns |-> columns]
NoMessage == Message("unset", <<>>, <<>>, "", <<>>, <<>>, <<>>)

Failed(e) == [err |-> e, proto |-> NoMessage]
Encoded(p) == [err |-> Ok, proto |-> p]

\* lines 314-339
serialize_array(value) ==
    IF DtypeType(value.dtype) \notin DOMAIN data_type
    THEN Failed("KeyError")
    ELSE Encoded(Message("array_nd", shape(value), [i \in 1..value.nd |-> i - 1],
                         data_type[DtypeType(value.dtype)], flatten(value),
                         <<>>, <<>>))

\* lines 306-309
Array1dOption(column) == [has_option |-> column.py # "None", option |-> column]
serialize_jagged(value) ==
    Encoded(Message("array_2d_jagged", <<>>, <<>>, "", <<>>, <<>>,
                    [i \in 1..Len(value.cols) |-> Array1dOption(value.cols[i])]))

\* lines 299-312 for a value that is not a dict
serialize_flat(value, value_format) ==
    IF value_format = "hashmap" THEN Failed("TypeError")
    ELSE IF value_format = "jagged"
    THEN IF value.py = "jagged" THEN serialize_jagged(value) ELSE Failed("TypeError")
    ELSE IF value_format # FormatNone /\ value_format # "array"
    THEN Failed("ValueError")
    ELSE IF value.py = "array" THEN serialize_array(value) ELSE Failed("KeyError")

\* lines 301-304: every entry is encoded with value_format=None
RECURSIVE _serialize_value_proto(_, _)
_serialize_value_proto(value, value_format) ==
    IF value.py = "dict"
    THEN LET items == [key \in DOMAIN value.items |->
                          _serialize_value_proto(value.items[key], FormatNone)]
         IN IF \E key \in DOMAIN items : items[key].err # Ok
            THEN Failed(items[CHOOSE key \in DOMAIN items : items[key].err # Ok].err)
            ELSE Encoded(Message("hashmap_string", <<>>, <<>>, "", <<>>,
                                 [key \in DOMAIN items |-> items[key].proto], <<>>))
    ELSE serialize_flat(value, value_format)

\* lines 344-347: the repeated field of the Array1d inside an ArrayNd
parse_array1d(array) == array.flattened

\* lines 349-351: the parsed column is not returned
parse_array1d_option(array) ==
    IF array.has_option
    THEN LET parsed == array.option IN NoneValue
    ELSE NoneValue

\* lines 353-358; Fallthrough when no return statement is reached
Fallthrough == PyValue("fallthrough", "", 0, "", <<>>, <<>>, <<>>, <<>>)
parse_array_nd(value) ==
    LET data == parse_array1d(value)
        dtype == ElementType(value.data_type)
    IN IF data # <<>>
       THEN IF value.shape # <<>>
            THEN IF Len(value.shape) = 1
                 THEN Array1(dtype, data)
                 ELSE Array2(dtype, reshape(data, value.shape))
            ELSE Scalar(dtype, data[1])
       ELSE Fallthrough

RECURSIVE _parse_value_proto(_)
_parse_value_proto(value) ==
    LET nd == IF value.kind = "array_nd" THEN parse_array_nd(value) ELSE Fallthrough
    IN IF nd # Fallthrough THEN nd
       ELSE IF value.kind = "hashmap_string"
       THEN Dict([key \in DOMAIN value.entries |-> _parse_value_proto(value.entries[key])])
       ELSE IF value.kind = "array_2d_jagged"
       THEN Jagged([i \in 1..Len(value.columns) |-> parse_array1d_option(value.columns[i])])
       ELSE NoneValue

----------------------------------------------------------------------------
(* Python str: the characters of every string the expansion slices *)

Chars(s) ==
    CASE s = "x" -> <<"x">>
      [] s = "y" -> <<"y">>
      [] s = "x_m" -> <<"x", "_", "m">>
      [] s = "n" -> <<"n">>
      [] s = "min" -> <<"m", "i", "n">>
      [] s = "max" -> <<"m", "a", "x">>
      [] s = "categories" -> <<"c", "a", "t", "e", "g", "o", "r", "i", "e", "s">>
      [] s = "x_n" -> <<"x", "_", "n">>
      [] s = "x_min" -> <<"x", "_", "m", "i", "n">>
      [] s = "x_max" -> <<"x", "_", "m", "a", "x">>
      [] s = "x_categories" ->
            <<"x", "_", "c", "a", "t", "e", "g", "o", "r", "i", "e", "s">>
      [] s = "y_n" -> <<"y", "_", "n">>
      [] s = "xXmin" -> <<"x", "X", "m", "i", "n">>
      [] s = "xXn" -> <<"x", "X", "n">>

\* str.startswith
startswith(s, prefix) ==
    /\ Len(prefix) <= Len(s)
    /\ SubSeq(s, 1, Len(prefix)) = prefix

\* s[k:], k counted from 0
SliceFrom(s, k) == IF k >= Len(s) THEN <<>> ELSE SubSeq(s, k + 1, Len(s))

ALL_CONSTRAINTS == {"n", "min", "max", "categories"}

----------------------------------------------------------------------------
(* Python dict with insertion order: a sequence of [k, v] entries *)

Keys(d) == {d[i].k : i \in 1..Len(d)}
Get(d, key) == d[CHOOSE i \in 1..Len(d) : d[i].k = key].v
Put(d, key, val) ==
    IF key \in Keys(d)
    THEN [i \in 1..Len(d) |-> IF d[i].k = key THEN [k |-> key, v |-> val] ELSE d[i]]
    ELSE Append(d, [k |-> key, v |-> val])
Entry(key, val) == [k |-> key, v |-> val]

\* d[key] = val on a dict keyed by integers, kept as a function
Store(f, key, val) == [x \in DOMAIN f \cup {key} |-> IF x = key THEN val ELSE f[x]]

Empty == [x \in {} |-> 0]

----------------------------------------------------------------------------
\* A Component's options: None, or the dict Dataset builds (lines 58-62),
\* where file_path "" and a literal of kind "unset" stand for a missing key.
Options(private, file_path, literal) ==
    [given |-> TRUE, private |-> private, file_path |-> file_path, literal |-> literal]
NoOptions == [given |-> FALSE, private |-> FALSE, file_path |-> "", literal |-> NoMessage]

(* Analysis.__init__, lines 214-232, without the registration loop *)

NewAnalysisObject ==
    [components |-> Empty, release_values |-> Empty,
     component_count |-> 0, _context |-> Unset]

\* A registration that leaves the counter where it was; IdsInOrder tells it
\* from add_component.
add_component_stuck(st, g, c, value, value_format) ==
    IF st.heap[c].analysis # NoAnalysis
    THEN [st EXCEPT !.err = "AlreadyOwned"]
    ELSE [st EXCEPT
            !.heap[c].analysis = g,
            !.heap[c].component_id = st.analyses[g].component_count,
            !.analyses[g].components = Store(@, st.analyses[g].component_count, c)]

\* A registration that takes a Component whoever owns it; OwnedIsRefused
\* tells it from add_component.
add_component_unchecked(st, g, c, value, value_format) ==
    [st EXCEPT
        !.heap[c].analysis = g,
        !.heap[c].component_id = st.analyses[g].component_count,
        !.analyses[g].components = Store(@, st.analyses[g].component_count, c),
        !.analyses[g].component_count = @ + 1]

\* A registration that stores the literal after the counter has moved on, under
\* the next id; LiteralStored tells it from add_component.
add_component_late(st, g, c, value, value_format) ==
    IF st.heap[c].analysis # NoAnalysis
    THEN [st EXCEPT !.err = "AlreadyOwned"]
    ELSE [st EXCEPT
            !.heap[c].analysis = g,
            !.heap[c].component_id = st.analyses[g].component_count,
            !.analyses[g].release_values =
                IF value.t # "none"
                THEN Store(@, st.analyses[g].component_count + 1,
                           [value |-> value.val, value_format |-> value_format])
                ELSE @,
            !.analyses[g].components = Store(@, st.analyses[g].component_count, c),
            !.analyses[g].component_count = @ + 1]

\* A registration whose counter runs downwards; ArgumentsFirst tells it from
\* add_component.
add_component_down(st, g, c, value, value_format) ==
    IF st.heap[c].analysis # NoAnalysis
    THEN [st EXCEPT !.err = "AlreadyOwned"]
    ELSE [st EXCEPT
            !.heap[c].analysis = g,
            !.heap[c].component_id = st.analyses[g].component_count,
            !.analyses[g].release_values =
                IF value.t # "none"
                THEN Store(@, st.analyses[g].component_count,
                           [value |-> value.val, value_format |-> value_format])
                ELSE @,
            !.analyses[g].components = Store(@, st.analyses[g].component_count, c),
            !.analyses[g].component_count = @ - 1]

(* Analysis.add_component.  st is the execution state [heap, analyses, err], *)
(* g the Analysis, c the Component, value an operand (None or a bare value). *)
add_component(st, g, c, value, value_format) ==
    IF st.heap[c].analysis # NoAnalysis
    THEN [st EXCEPT !.err = "AlreadyOwned"]
    ELSE LET id == st.analyses[g].component_count
             withValue ==
                IF value.t # "none"
                THEN Store(st.analyses[g].release_values, id,
                           [value |-> value.val, value_format |-> value_format])
                ELSE st.analyses[g].release_values
         IN [st EXCEPT
                !.heap[c].analysis = g,
                !.heap[c].component_id = id,
                !.analyses[g].release_values = withValue,
                !.analyses[g].components = Store(@, id, c),
                !.analyses[g].component_count = id + 1]

\* lines 76-82: the new object, not yet registered
Allocate(st, name, arguments, options) ==
    [st EXCEPT !.heap = Append(@, [name |-> name, arguments |-> arguments,
                                    options |-> options, analysis |-> NoAnalysis,
                                    component_id |-> NoneId])]

(* Component.__init__ from line 76 on, the arguments already expanded *)
Register(st, ctx, name, arguments, options, value, value_format) ==
    IF st.err # Ok THEN st
    ELSE IF ctx = NoAnalysis THEN [st EXCEPT !.err = "NoActiveContext"]
    ELSE add_component(Allocate(st, name, arguments, options), ctx,
                       Len(st.heap) + 1, value, value_format)

\* the Component a constructor call has just returned
Made(st) == NodeRef(Len(st.heap))

\* a call returning the Component just made: [st, r], r the returned operand
Returned(st) == [st |-> st, r |-> Made(st)]

\* A coercion that hands every operand back as it is; OperatorNodes tells it
\* from of.
of_unwrapped(st, ctx, value) == [st |-> st, r |-> value]

(* Component.of *)
of(st, ctx, value) ==
    IF st.err # Ok \/ value.t = "none" THEN [st |-> st, r |-> None]
    ELSE IF value.t = "node" THEN [st |-> st, r |-> value]
    ELSE Returned(Register(st, ctx, "Constant", <<>>, NoOptions, value, FormatNone))

----------------------------------------------------------------------------
(* Component._expand_constraints *)

\* lines 165-168: the suffixes found for one argument
filtered(argument, constraints) ==
    {s \in ALL_CONSTRAINTS :
        \E i \in DOMAIN constraints :
            /\ startswith(Chars(i), Chars(argument))
            /\ SliceFrom(Chars(i), Len(Chars(argument)) + 1) = Chars(s)}

\* the keys of constraints equal to argument + '_' + suffix
Lookup(constraints, argument, suffix) ==
    {i \in DOMAIN constraints : Chars(i) = Chars(argument) \o <<"_">> \o Chars(suffix)}

\* Component.of(constraints[argument + '_' + suffix])
ofConstraint(st, ctx, constraints, argument, suffix) ==
    IF st.err # Ok THEN [st |-> st, r |-> None]
    ELSE IF Lookup(constraints, argument, suffix) = {}
    THEN [st |-> [st EXCEPT !.err = "KeyError"], r |-> None]
    ELSE of(st, ctx, constraints[CHOOSE i \in Lookup(constraints, argument, suffix) : TRUE])

\* arguments[argument] = <the Component made>, unless the constructor raised;
\* cur is the current value of arguments[argument]
Assigned(st, cur) == IF st.err # Ok THEN [st |-> st, r |-> cur] ELSE Returned(st)

\* one wrapper: arguments[argument] = Component(name, arguments={...}).
\* e is [st, r]: the state and the current value of arguments[argument]
Wrap(e, ctx, name, arguments) ==
    Assigned(Register(e.st, ctx, name, arguments, NoOptions, None, FormatNone), e.r)

\* lines 179-181
Impute(e, ctx) == Wrap(e, ctx, "Impute", <<Entry("data", e.r)>>)

\* lines 174-178, min_component and max_component made, then lines 179-181
Clamp(e, ctx, mn, mx) ==
    Impute(Wrap([st |-> mx.st, r |-> e.r], ctx, "Clamp",
                <<Entry("data", e.r), Entry("min", mn.r), Entry("max", mx.r)>>),
           ctx)

\* lines 172-181, min_component made
ClampFrom(e, ctx, argument, constraints, mn) ==
    Clamp(e, ctx, mn, ofConstraint(mn.st, ctx, constraints, argument, "max"))

\* lines 185-188, the right operand made
RowMax(e, ctx, mx) ==
    Wrap([st |-> mx.st, r |-> e.r], ctx, "RowMax",
         <<Entry("left", e.r), Entry("right", mx.r)>>)

\* lines 191-194, the right operand made
RowMin(e, ctx, mn) ==
    Wrap([st |-> mn.st, r |-> e.r], ctx, "RowMin",
         <<Entry("left", e.r), Entry("right", mn.r)>>)

\* lines 184-188
ExpandMax(e, ctx, argument, constraints, f) ==
    IF "max" \in f
    THEN RowMax(e, ctx, ofConstraint(e.st, ctx, constraints, argument, "max"))
    ELSE e

\* lines 190-194
ExpandMin(e, ctx, argument, constraints, f) ==
    IF "min" \in f
    THEN RowMin(e, ctx, ofConstraint(e.st, ctx, constraints, argument, "min"))
    ELSE e

\* lines 170-194: the range wrappers
ExpandRange(e, ctx, argument, constraints, f) ==
    IF "max" \in f /\ "min" \in f
    THEN ClampFrom(e, ctx, argument, constraints,
                   ofConstraint(e.st, ctx, constraints, argument, "min"))
    ELSE ExpandMin(ExpandMax(e, ctx, argument, constraints, f),
                   ctx, argument, constraints, f)

\* lines 197-200, the categories made
ClampCategories(e, ctx, c) ==
    Wrap([st |-> c.st, r |-> e.r], ctx, "Clamp",
         <<Entry("data", e.r), Entry("categories", c.r)>>)

\* lines 196-200
ExpandCategories(e, ctx, argument, constraints, f) ==
    IF "categories" \in f
    THEN ClampCategories(e, ctx,
                         ofConstraint(e.st, ctx, constraints, argument, "categories"))
    ELSE e

\* lines 203-206, n made
Resize(e, ctx, c) ==
    Wrap([st |-> c.st, r |-> e.r], ctx, "Resize",
         <<Entry("data", e.r), Entry("n", c.r)>>)

\* lines 202-206
ExpandN(e, ctx, argument, constraints, f) ==
    IF "n" \in f
    THEN Resize(e, ctx, ofConstraint(e.st, ctx, constraints, argument, "n"))
    ELSE e

\* lines 170-206 for one argument, f its filtered suffixes
ExpandWith(e, ctx, argument, constraints, f) ==
    ExpandN(ExpandCategories(ExpandRange(e, ctx, argument, constraints, f),
                             ctx, argument, constraints, f),
            ctx, argument, constraints, f)

\* the body of the loop at line 164 for one argument
ExpandArgument(st, ctx, argument, cur, constraints) ==
    ExpandWith([st |-> st, r |-> cur], ctx, argument, constraints,
               filtered(argument, constraints))

\* the loop at line 164, from the i-th argument on; the dict is updated in place
RECURSIVE ExpandFrom(_, _, _, _, _)

\* the i-th argument done with outcome e, on to the next
ExpandNext(e, ctx, arguments, constraints, i) ==
    ExpandFrom(e.st, ctx, Put(arguments, arguments[i].k, e.r), constraints, i + 1)

ExpandFrom(st, ctx, arguments, constraints, i) ==
    IF i > Len(arguments) \/ st.err # Ok
    THEN [st |-> st, arguments |-> arguments]
    ELSE ExpandNext(ExpandArgument(st, ctx, arguments[i].k, arguments[i].v, constraints),
                    ctx, arguments, constraints, i)

_expand_constraints(st, ctx, arguments, constraints) ==
    IF DOMAIN constraints = {}
    THEN [st |-> st, arguments |-> arguments]
    ELSE ExpandFrom(st, ctx, arguments, constraints, 1)

\* lines 76-88 with self.arguments expanded: e is [st, arguments]
Construction(e, ctx, name, options, value, value_format) ==
    [st |-> Register(e.st, ctx, name, e.arguments, options, value, value_format),
     expanded |-> e.arguments]

(* Component.__init__ *)
Component(st, ctx, name, arguments, options, constraints, value, value_format) ==
    Construction(_expand_constraints(st, ctx, arguments, constraints),
                 ctx, name, options, value, value_format)

----------------------------------------------------------------------------
(* Inputs of the calls *)

Int0 == Scalar("int", "0")
Int5 == Scalar("int", "5")
Int10 == Scalar("int", "10")
StrA == Scalar("str", "a")
Literals == {Int0, Int10}

NodeRefs == {NodeRef(i) : i \in 1..Len(heap)}

\* the constraint keys a caller passes, and the value passed under each
KeyPool == {"x_min", "x_max", "x_categories", "x_n", "y_n", "xXmin", "xXn"}
ConstraintValue(key) ==
    CASE key \in {"x_min", "xXmin"} -> Bare(Int0)
      [] key = "x_max" -> Bare(Int10)
      [] key = "x_categories" -> Bare(StrA)
      [] key \in {"x_n", "y_n", "xXn"} -> Bare(Int5)
ConstraintSets == {[key \in K |-> ConstraintValue(key)] : K \in SUBSET KeyPool}

\* the arguments dicts a caller passes
ArgumentLists ==
    {<<>>}
    \cup {<<Entry("x", a)>> : a \in NodeRefs}
    \cup {<<Entry("x", a), Entry("y", a)>> : a \in NodeRefs}
    \cup {<<Entry("x", a), Entry("x_m", a)>> : a \in NodeRefs}
    \cup {<<Entry("x_m", a), Entry("x", a)>> : a \in NodeRefs}

BinaryOperators ==
    {"Add", "Subtract", "Multiply", "Divide", "Power",
     "Or", "And", "GreaterThan", "LessThan", "Equal"}

Start == [heap |-> heap, analyses |-> analyses, err |-> Ok]

\* SpecCall and SpecRelease make one call from a prepared state and keep its
\* inputs and the
\* exception it raised in `call`; in the other specifications `call` stays as
\* it is.
Note(record) == IF call.op = "ready" THEN record ELSE call

\* the part of the state a call returns with
Commit(st) ==
    /\ heap' = st.heap
    /\ analyses' = st.analyses

----------------------------------------------------------------------------
(* Initial state: the module has been imported, `context = None` (line 428) *)

Idle == [stage |-> "idle"]

Init ==
    /\ context = NoAnalysis
    /\ analyses = <<>>
    /\ heap = <<>>
    /\ datasets = {}
    /\ scopes = <<>>
    /\ call = [op |-> "import", err |-> Ok]
    /\ codec = Idle
    /\ usage = Idle

----------------------------------------------------------------------------
(* Actions: the calls a caller makes *)

\* the loop of lines 228-229
RECURSIVE RegisterAll(_, _, _, _)
RegisterAll(st, g, components, i) ==
    IF i > Len(components) \/ st.err # Ok THEN st
    ELSE RegisterAll(add_component(st, g, components[i], None, FormatNone),
                     g, components, i + 1)

\* Analysis(*components).  When the constructor raises the caller never gets
\* the object, so it is not kept.
NewAnalysis(components) ==
    \E st \in {RegisterAll([Start EXCEPT !.analyses = Append(@, NewAnalysisObject)],
                            Len(analyses) + 1, components, 1)} :
       /\ heap' = st.heap
       /\ analyses' = IF st.err = Ok THEN st.analyses ELSE analyses
       /\ call' = Note([op |-> "Analysis", err |-> st.err, ctx |-> context,
                        base |-> Len(heap), components |-> components])
       /\ UNCHANGED <<context, datasets, scopes, codec, usage>>

\* An open `with` block: its Analysis and the context that was active just
\* before it was entered, with what the caller has done inside it since:
\*   inner      "none": no block entered inside; "open": blocks entered, none
\*              ended; "closed": the blocks entered inside have been ending,
\*              none entered since; "several": a block was entered inside
\*              after another had ended
\*   reentered  its own Analysis has been entered again inside it
Scope(g, saved) == [g |-> g, saved |-> saved, inner |-> "none", reentered |-> FALSE]

\* `with g:` -- Analysis.__enter__
Enter(g) ==
    /\ Len(scopes) < MaxDepth
    /\ analyses' = [analyses EXCEPT ![g]._context = context]
    /\ context' = g
    /\ scopes' = Append([i \in 1..Len(scopes) |->
                            [scopes[i] EXCEPT
                                !.inner = IF @ \in {"none", "open"} THEN "open"
                                          ELSE "several",
                                !.reentered = @ \/ scopes[i].g = g]],
                        Scope(g, context))
    /\ call' = Note([op |-> "__enter__", err |-> Ok, g |-> g])
    /\ UNCHANGED <<heap, datasets, codec, usage>>

\* An exit that clears the context instead of restoring the saved one;
\* TwoScopesRestore tells it from Exit.
ExitToNone ==
    /\ scopes # <<>>
    /\ context' = NoAnalysis
    /\ scopes' = [i \in 1..(Len(scopes) - 1) |->
                    [scopes[i] EXCEPT !.inner = IF @ = "open" THEN "closed" ELSE @]]
    /\ call' = Note([op |-> "__exit__", err |-> Ok, g |-> scopes[Len(scopes)].g])
    /\ UNCHANGED <<analyses, heap, datasets, codec, usage>>

\* the end of the innermost `with` block -- Analysis.__exit__
Exit ==
    /\ scopes # <<>>
    /\ context' = analyses[scopes[Len(scopes)].g]._context
    /\ scopes' = [i \in 1..(Len(scopes) - 1) |->
                    [scopes[i] EXCEPT !.inner = IF @ = "open" THEN "closed" ELSE @]]
    /\ call' = Note([op |-> "__exit__", err |-> Ok, g |-> scopes[Len(scopes)].g])
    /\ UNCHANGED <<analyses, heap, datasets, codec, usage>>

\* g.add_component(c, value) called directly
AddComponent(g, c, value) ==
    \E st \in {add_component(Start, g, c, value, FormatNone)} :
       /\ Commit(st)
       /\ call' = Note([op |-> "add_component", err |-> st.err, ctx |-> context,
                        base |-> Len(heap), g |-> g, c |-> c])
       /\ UNCHANGED <<context, datasets, scopes, codec, usage>>

\* Component(name, arguments=..., constraints=..., value=...)
Construct(name, arguments, constraints, value) ==
    \E r \in {Component(Start, context, name, arguments, NoOptions, constraints,
                         value, FormatNone)} :
       /\ Commit(r.st)
       /\ call' = Note([op |-> "Component", err |-> r.st.err, ctx |-> context,
                   base |-> Len(heap), name |-> name, arguments |-> arguments,
                   constraints |-> constraints, value |-> value,
                   value_format |-> FormatNone, expanded |-> r.expanded])
       /\ UNCHANGED <<context, datasets, scopes, codec, usage>>

\* Component('Constant', value=..., value_format=...)
Literal(value, value_format) ==
    \E r \in {Component(Start, context, "Constant", <<>>, NoOptions, Empty,
                         value, value_format)} :
       /\ Commit(r.st)
       /\ call' = Note([op |-> "Component", err |-> r.st.err, ctx |-> context,
                   base |-> Len(heap), name |-> "Constant", arguments |-> <<>>,
                   constraints |-> Empty, value |-> value,
                   value_format |-> value_format, expanded |-> r.expanded])
       /\ UNCHANGED <<context, datasets, scopes, codec, usage>>

\* -a  (Component.__neg__)
Negate(a) ==
    \E r \in {Component(Start, context, "Negative", <<Entry("data", a)>>,
                         NoOptions, Empty, None, FormatNone)} :
       /\ Commit(r.st)
       /\ call' = Note([op |-> "operator", err |-> r.st.err, ctx |-> context,
                   base |-> Len(heap), name |-> "Negative", left |-> a, right |-> None,
                   unary |-> TRUE])
       /\ UNCHANGED <<context, datasets, scopes, codec, usage>>

\* a <op> other  (Component.__add__ .. Component.__eq__)
Binary(name, a, other) ==
    \E right \in {of(Start, context, other)} :
    \E r \in {Component(right.st, context, name,
                         <<Entry("left", a), Entry("right", right.r)>>, NoOptions,
                         Empty, None, FormatNone)} :
       /\ Commit(r.st)
       /\ call' = Note([op |-> "operator", err |-> r.st.err, ctx |-> context,
                   base |-> Len(heap), name |-> name, left |-> a, right |-> other,
                   unary |-> FALSE])
       /\ UNCHANGED <<context, datasets, scopes, codec, usage>>

\* Dataset(path=..., value=..., value_format=...)
NewDataset(path, value, value_format) ==
    \E literal \in {IF value.t # "none"
                     THEN _serialize_value_proto(value.val, value_format)
                     ELSE Encoded(NoMessage)} :
    \E st \in {IF context = NoAnalysis THEN [Start EXCEPT !.err = "NoActiveContext"]
               ELSE IF (IF path # "" THEN 1 ELSE 0)
                       + (IF value.t # "none" THEN 1 ELSE 0) # 1
               THEN [Start EXCEPT !.err = "ValueError"]
               ELSE IF literal.err # Ok THEN [Start EXCEPT !.err = literal.err]
               ELSE Component(Start, context, "Materialize", <<>>,
                              Options(TRUE, path, literal.proto), Empty,
                              None, FormatNone).st} :
       /\ Commit(st)
       /\ datasets' = IF st.err = Ok THEN datasets \cup {Len(st.heap)} ELSE datasets
       /\ call' = Note([op |-> "Dataset", err |-> st.err, ctx |-> context,
                        base |-> Len(heap), path |-> path, value |-> value,
                        value_format |-> value_format])
       /\ UNCHANGED <<context, scopes, codec, usage>>

\* dataset[identifier]  (Dataset.__getitem__)
GetItem(d, identifier) ==
    \E columns \in {of(Start, context, identifier)} :
    \E r \in {Component(columns.st, context, "Index",
                         <<Entry("columns", columns.r), Entry("data", NodeRef(d))>>,
                         NoOptions, Empty, None, FormatNone)} :
       /\ Commit(r.st)
       /\ call' = Note([op |-> "Dataset.__getitem__", err |-> r.st.err, ctx |-> context,
                   base |-> Len(heap), d |-> d, identifier |-> identifier])
       /\ UNCHANGED <<context, datasets, scopes, codec, usage>>

\* a base_pb2.ReleaseNode message: a Value and the repeated privacy_usage
ReleaseNode(value, records) == [value |-> value, privacy_usage |-> records]

\* privacy_usage(**self.release_values[component_id].get("privacy_usage", {})),
\* lines 282-283.  What a parsed entry holds under 'privacy_usage' is the
\* repeated field of the response, which `**` does not take: TypeError.
serialize_privacy_usage(entry) ==
    IF "privacy_usage" \in DOMAIN entry
    THEN [err |-> "TypeError", records |-> <<>>]
    ELSE [err |-> Ok, records |-> privacy_usage(Absent, Absent).v]

\* lines 278-283: the value is encoded first, then the privacy usage
serialize_release_node(value, records) ==
    [err |-> IF value.err # Ok THEN value.err ELSE records.err,
     proto |-> ReleaseNode(value.proto, records.records)]

\* Analysis._serialize_release_proto: every released value is encoded
_serialize_release_proto(release_values) ==
    [id \in DOMAIN release_values |->
        serialize_release_node(
            _serialize_value_proto(release_values[id].value,
                                   release_values[id].value_format),
            serialize_privacy_usage(release_values[id]))]

\* the exception building the request raises, Ok if none
RequestError(encoded) ==
    IF \A id \in DOMAIN encoded : encoded[id].err = Ok THEN Ok
    ELSE encoded[CHOOSE id \in DOMAIN encoded :
                    /\ encoded[id].err # Ok
                    /\ \A other \in DOMAIN encoded :
                          encoded[other].err # Ok => id <= other].err

\* lines 289-293: a parsed entry has no 'value_format' key (FormatNone is what
\* .get("value_format") gives) and has 'privacy_usage' only when the node of
\* the response carries records
parse_release_node(release_node) ==
    IF release_node.privacy_usage # <<>>
    THEN [value |-> _parse_value_proto(release_node.value), value_format |-> FormatNone,
          privacy_usage |-> release_node.privacy_usage]
    ELSE [value |-> _parse_value_proto(release_node.value), value_format |-> FormatNone]

\* Analysis._parse_release_proto
_parse_release_proto(release) ==
    [id \in DOMAIN release |-> parse_release_node(release[id])]

\* The engine behind core_wrapper.compute_release is not part of this
\* repository.  Its answers here: the request's own entries, or a value for
\* every node of the graph.
Responses(g, request) ==
    {request,
     [id \in DOMAIN analyses[g].components |->
        ReleaseNode(_serialize_value_proto(Int0, FormatNone).proto, <<>>)]}

\* A release that adds the response to the released values it has;
\* ReleaseReplaces tells it from ReleaseWith.
ReleaseMerging(g, response) ==
    \E encoded \in {_serialize_release_proto(analyses[g].release_values)} :
       /\ IF RequestError(encoded) # Ok
          THEN /\ analyses' = analyses
               /\ call' = Note([op |-> "release", err |-> RequestError(encoded), g |-> g,
                                response |-> Empty])
          ELSE /\ analyses' = [analyses EXCEPT
                                  ![g].release_values =
                                      [id \in DOMAIN @ \cup DOMAIN response |->
                                          IF id \in DOMAIN response
                                          THEN parse_release_node(response[id])
                                          ELSE @[id]]]
               /\ call' = Note([op |-> "release", err |-> Ok, g |-> g,
                                response |-> response])
       /\ UNCHANGED <<context, heap, datasets, scopes, codec, usage>>

\* g.release(), the engine answering with response
ReleaseWith(g, response) ==
    \E encoded \in {_serialize_release_proto(analyses[g].release_values)} :
       /\ IF RequestError(encoded) # Ok
          THEN /\ analyses' = analyses
               /\ call' = Note([op |-> "release", err |-> RequestError(encoded), g |-> g,
                                response |-> Empty])
          ELSE /\ analyses' = [analyses EXCEPT
                                  ![g].release_values = _parse_release_proto(response)]
               /\ call' = Note([op |-> "release", err |-> Ok, g |-> g,
                                response |-> response])
       /\ UNCHANGED <<context, heap, datasets, scopes, codec, usage>>

\* g.release()
Release(g) ==
    \E response \in Responses(g, [id \in DOMAIN analyses[g].release_values |->
                                    _serialize_release_proto(analyses[g].release_values)[id].proto]) :
       ReleaseWith(g, response)

\* g.validate(), lines 368-371: the two requests are built and handed over
Validate(g) ==
    /\ call' = [op |-> "validate",
                err |-> RequestError(_serialize_release_proto(analyses[g].release_values)),
                g |-> g]
    /\ UNCHANGED <<context, analyses, heap, datasets, scopes, codec, usage>>

(* Spec: any sequence of scope entries, exits, releases and node-creating   *)
(* calls, the inputs of each call from small sets                           *)

Next ==
    \/ /\ Len(analyses) < MaxAnalyses
       /\ NewAnalysis(<<>>)
    \/ \E g \in 1..Len(analyses) : Enter(g)
    \/ Exit
    \/ \E g \in 1..Len(analyses) : Release(g)
    \/ /\ Len(heap) < MaxNodes
       /\ Construct("Constant", <<>>, Empty, Bare(Int0))
    \/ /\ Len(heap) < MaxNodes
       /\ \E a \in NodeRefs :
            Construct("Mean", <<Entry("x", a)>>,
                      [key \in {"x_n"} |-> ConstraintValue(key)], None)
    \/ /\ Len(heap) < MaxNodes
       /\ \E a \in NodeRefs, other \in NodeRefs \cup {Bare(Int0)} :
            Binary("Add", a, other)

Spec == Init /\ [][Next]_vars

----------------------------------------------------------------------------
(* SpecCall: one call, its inputs from the full sets, made in each of three *)
(* places of the program                                                    *)
(*     a = Analysis(); b = Analysis()                                       *)
(*     with a:                                                              *)
(*         d = Dataset(path="data.csv")                                     *)
(*         ...                          <- inside a's block                 *)
(*     ...                              <- after it, no block open          *)
(*     with b:                                                              *)
(*         ...                          <- inside b's block                 *)

Prepared ==
    Component([heap |-> <<>>,
               analyses |-> <<[NewAnalysisObject EXCEPT !._context = NoAnalysis],
                              NewAnalysisObject>>,
               err |-> Ok],
              1, "Materialize", <<>>, Options(TRUE, "data.csv", NoMessage),
              Empty, None, FormatNone).st

InitCall ==
    /\ heap = Prepared.heap
    /\ datasets = {1}
    /\ \/ /\ context = 1
          /\ analyses = Prepared.analyses
          /\ scopes = <<Scope(1, NoAnalysis)>>
       \/ /\ context = NoAnalysis
          /\ analyses = Prepared.analyses
          /\ scopes = <<>>
       \/ /\ context = 2
          /\ analyses = [Prepared.analyses EXCEPT ![2]._context = NoAnalysis]
          /\ scopes = <<Scope(2, NoAnalysis)>>
    /\ call = [op |-> "ready", err |-> Ok]
    /\ codec = Idle
    /\ usage = Idle

Ready == call.op = "ready"

NextCall ==
    \/ /\ Ready
       /\ \E components \in {<<>>} \cup {<<c>> : c \in 1..Len(heap)} :
            NewAnalysis(components)
    \/ /\ Ready
       /\ \E g \in 1..Len(analyses), c \in 1..Len(heap), value \in {None, Bare(Int0)} :
            AddComponent(g, c, value)
    \/ /\ Ready
       /\ \E arguments \in ArgumentLists, constraints \in ConstraintSets :
            Construct("Mean", arguments, constraints, None)
    \/ /\ Ready
       /\ \E value \in {Bare(v) : v \in Literals} :
            Construct("Constant", <<>>, Empty, value)
    \/ /\ Ready
       /\ \E value \in {Bare(Int0), Bare(Array1("int", <<"0", "10">>))},
             value_format \in {"array", "jagged", "table"} :
            Literal(value, value_format)
    \/ /\ Ready
       /\ \E a \in NodeRefs : Negate(a)
    \/ /\ Ready
       /\ \E name \in BinaryOperators, a \in NodeRefs,
             other \in NodeRefs \cup {None} \cup {Bare(v) : v \in Literals} :
            Binary(name, a, other)
    \/ /\ Ready
       /\ \E path \in {"", "data.csv"},
             value \in {None, Bare(Int0), Bare(Scalar("bool", "True"))},
             value_format \in {FormatNone, "table"} :
            NewDataset(path, value, value_format)
    \/ /\ Ready
       /\ \E d \in datasets, identifier \in {None, Bare(StrA)} \cup NodeRefs :
            GetItem(d, identifier)

SpecCall == InitCall /\ [][NextCall]_vars

----------------------------------------------------------------------------
(* SpecCodec: one value is encoded under one format, then decoded *)

Ints == {"0", "10"}
IntLists == UNION {[1..n -> Ints] : n \in 1..MaxLen}
IntMatrices == UNION {[1..n -> [1..m -> Ints]] : n \in 1..MaxLen, m \in 1..MaxLen}

\* scalars, lists and lists of equal rows; np.array([]) is an array of floats
Arrays ==
    {Int0, Int10, StrA, Scalar("bool", "True"), Scalar("float", "0.5")}
    \cup {Array1("int", xs) : xs \in IntLists}
    \cup {Array1("float", <<>>), Array1("float", <<"0.5">>),
          Array1("str", <<"a">>), Array1("bool", <<"True">>)}
    \cup {Array2("int", xss) : xss \in IntMatrices}

\* lists of columns: a column is a list or None
Columns == {Array1("int", <<"0">>), Array1("int", <<"0", "10">>), NoneValue}
Jaggeds == {Jagged(cols) : cols \in UNION {[1..n -> Columns] : n \in 1..MaxLen}}

\* dicts of str keys
DictEntries == {Int0, Array1("int", <<"0", "10">>), Scalar("bool", "True"),
                Dict([key \in {"k"} |-> StrA])}
Dicts == {Dict(items) : items \in [{"k"} -> DictEntries] \cup [{"k", "m"} -> DictEntries]}

\* the (value, value_format) pairs a caller passes
CodecInputs ==
    (Arrays \X {FormatNone, "array", "table"})
    \cup ({Int0, Int10} \X {"jagged", "hashmap"})
    \cup (Jaggeds \X {"jagged", "table"})
    \cup (Dicts \X {FormatNone, "array", "jagged", "hashmap", "table"})

CodecState(stage, value, value_format, err, proto, result) ==
    [stage |-> stage, value |-> value, value_format |-> value_format,
     err |-> err, proto |-> proto, result |-> result]

InitCodec ==
    /\ context = NoAnalysis
    /\ analyses = <<>>
    /\ heap = <<>>
    /\ datasets = {}
    /\ scopes = <<>>
    /\ call = [op |-> "import", err |-> Ok]
    /\ usage = Idle
    /\ \E input \in CodecInputs :
          codec = CodecState("input", input[1], input[2], Ok, NoMessage, NoneValue)

\* proto = Analysis._serialize_value_proto(value, value_format)
Encode ==
    /\ codec.stage = "input"
    /\ \E r \in {_serialize_value_proto(codec.value, codec.value_format)} :
          codec' = [codec EXCEPT !.stage = "encoded", !.err = r.err, !.proto = r.proto]
    /\ UNCHANGED <<context, analyses, heap, datasets, scopes, call, usage>>

\* result = Analysis._parse_value_proto(proto)
Decode ==
    /\ codec.stage = "encoded"
    /\ codec.err = Ok
    /\ codec' = [codec EXCEPT !.stage = "decoded",
                              !.result = _parse_value_proto(codec.proto)]
    /\ UNCHANGED <<context, analyses, heap, datasets, scopes, call, usage>>

NextCodec ==
    \/ Encode
    \/ Decode

SpecCodec == InitCodec /\ [][NextCodec]_vars

----------------------------------------------------------------------------
(* SpecUsage: one call of privacy_usage(epsilon=..., delta=...) *)

Numbers == {"1.0", "2.0"}
UsageArguments ==
    {Absent}
    \cup {Num(x) : x \in Numbers}
    \cup {List(xs) : xs \in UNION {[1..n -> Numbers] : n \in 0..MaxLen}}

InitUsage ==
    /\ context = NoAnalysis
    /\ analyses = <<>>
    /\ heap = <<>>
    /\ datasets = {}
    /\ scopes = <<>>
    /\ call = [op |-> "import", err |-> Ok]
    /\ codec = Idle
    /\ \E epsilon \in UsageArguments, delta \in UsageArguments :
          usage = [stage |-> "input", epsilon |-> epsilon, delta |-> delta,
                   result |-> Absent]

CallUsage ==
    /\ usage.stage = "input"
    /\ usage' = [usage EXCEPT !.stage = "returned",
                              !.result = privacy_usage(usage.epsilon, usage.delta)]
    /\ UNCHANGED <<context, analyses, heap, datasets, scopes, call, codec>>

NextUsage == CallUsage

SpecUsage == InitUsage /\ [][NextUsage]_vars

----------------------------------------------------------------------------
(* SpecRelease: one release of a graph with literals, the engine answering  *)
(* for any of the nodes, then one more request                              *)
(*     a = Analysis(); b = Analysis()                                       *)
(*     with a:                                                              *)
(*         c = Component('Constant', value=0)                               *)
(*         n = c + 10                                                       *)
(*         ...                          <- inside a's block                 *)
(*     ...                              <- after it                         *)

Released ==
    Component(of(Component([heap |-> <<>>,
                            analyses |-> <<[NewAnalysisObject EXCEPT !._context = NoAnalysis],
                                           NewAnalysisObject>>,
                            err |-> Ok],
                           1, "Constant", <<>>, NoOptions, Empty, Bare(Int0),
                           FormatNone).st,
                 1, Bare(Int10)).st,
              1, "Add", <<Entry("left", NodeRef(1)), Entry("right", NodeRef(2))>>,
              NoOptions, Empty, None, FormatNone).st

InitRelease ==
    /\ heap = Released.heap
    /\ analyses = Released.analyses
    /\ datasets = {}
    /\ \/ /\ context = 1
          /\ scopes = <<Scope(1, NoAnalysis)>>
       \/ /\ context = NoAnalysis
          /\ scopes = <<>>
    /\ call = [op |-> "ready", err |-> Ok]
    /\ codec = Idle
    /\ usage = Idle

\* what the engine may say of one node: a scalar or an array, with or without
\* a privacy usage record
NodeAnswers ==
    {ReleaseNode(_serialize_value_proto(value, FormatNone).proto, records) :
        value \in {Int0, Array1("int", <<"0", "10">>)},
        records \in {<<>>, <<DistancePure("1.0")>>}}

\* the answers of the engine: any of the graph's nodes, each with any answer
Answers(g) ==
    UNION {[ids -> NodeAnswers] : ids \in SUBSET DOMAIN analyses[g].components}

NextRelease ==
    \/ /\ Ready
       /\ \E g \in 1..Len(analyses) : \E response \in Answers(g) : ReleaseWith(g, response)
    \/ /\ call.op = "release"
       /\ call.err = Ok
       /\ Validate(call.g)

SpecRelease == InitRelease /\ [][NextRelease]_vars

----------------------------------------------------------------------------
(* Properties *)

\* the Components an Analysis owns, as heap references
Owned(g) == {c \in 1..Len(heap) : heap[c].analysis = g}

\* C1: in every Graph the k-th Node registered has id k-1, the node table has
\* exactly the keys 0..counter-1 and holds each owned Node under its own id:
\* no id is skipped or assigned twice.
IdsInOrder ==
    \A g \in 1..Len(analyses) :
        /\ DOMAIN analyses[g].components = 0..(analyses[g].component_count - 1)
        /\ \A c \in Owned(g) :
              /\ heap[c].component_id = Cardinality({d \in Owned(g) : d < c})
              /\ heap[c].component_id \in DOMAIN analyses[g].components
              /\ analyses[g].components[heap[c].component_id] = c
        /\ \A id \in DOMAIN analyses[g].components :
              analyses[g].components[id] \in Owned(g)

\* a Graph with three Nodes and another with one, after a release
IdsInOrderWitness ==
    \E g, h \in 1..Len(analyses) :
        /\ g # h
        /\ analyses[g].component_count >= 3
        /\ analyses[h].component_count >= 1
        /\ DOMAIN analyses[g].release_values = DOMAIN analyses[g].components

\* a step that ends the innermost block
Exiting == Len(scopes') = Len(scopes) - 1

\* C2: with B's block entered directly inside A's block (A, B distinct), the
\* end of B's block leaves A active, and the end of A's block leaves active
\* what was active before A was entered, whatever was constructed meanwhile.
TwoScopesRestore ==
    [][Exiting =>
        /\ (/\ Len(scopes) >= 2
            /\ scopes[Len(scopes)].inner = "none"
            /\ scopes[Len(scopes) - 1].inner = "open"
            /\ scopes[Len(scopes)].g # scopes[Len(scopes) - 1].g)
           => context' = scopes[Len(scopes) - 1].g
        /\ (/\ scopes[Len(scopes)].inner = "closed"
            /\ ~scopes[Len(scopes)].reentered)
           => context' = scopes[Len(scopes)].saved]_vars

\* B's block has ended inside A's, Nodes were constructed in both Graphs, and
\* A is active again
TwoScopesRestoreWitness ==
    /\ Len(scopes) = 1
    /\ scopes[1].inner = "closed"
    /\ ~scopes[1].reentered
    /\ context = scopes[1].g
    /\ \E b \in 1..Len(analyses) :
          /\ b # scopes[1].g
          /\ analyses[b]._context = scopes[1].g
          /\ analyses[b].component_count > 0
          /\ analyses[scopes[1].g].component_count > 0

\* C3: after any number of blocks entered one inside the other (the Graphs
\* arbitrary, one already open may be entered again) the blocks end in reverse
\* order, and each end leaves active exactly what was active just before the
\* matching entry.
StackRestore ==
    [][(Exiting /\ scopes[1].inner # "several")
        => context' = scopes[Len(scopes)].saved]_vars

\* C4: registering a Node that has an owner, through add_component or through
\* a new Graph's constructor, fails with the already-owned error and changes
\* no Graph and no Node.
OwnedIsRefused ==
    [][\A c \in 1..Len(heap) :
          (/\ heap[c].analysis # NoAnalysis
           /\ \/ call'.op = "add_component" /\ call'.c = c
              \/ call'.op = "Analysis" /\ call'.components = <<c>>)
          => /\ call'.err = "AlreadyOwned"
             /\ heap' = heap
             /\ analyses' = analyses]_vars

\* a second Graph has refused a Node of the first
OwnedIsRefusedWitness ==
    /\ call.op = "add_component"
    /\ call.err = "AlreadyOwned"
    /\ heap[call.c].analysis # call.g
    /\ analyses[call.g].component_count = 0

\* the calls that create a Node
NodeCreating == {"Component", "operator", "Dataset", "Dataset.__getitem__"}

\* C5: with no Graph active every Node-creating call fails with the
\* no-active-context error and changes no Graph.
NoContextIsRefused ==
    [][(context = NoAnalysis /\ call'.op \in NodeCreating)
        => (call'.err = "NoActiveContext" /\ analyses' = analyses)]_vars

\* C6: a Node construction that fails inside an open block leaves the active
\* Graph as it was: counter, node table and released-value table.
FailureLeavesGraph ==
    [][(context # NoAnalysis /\ call'.op \in NodeCreating /\ call'.err # Ok)
        => analyses'[context] = analyses[context]]_vars

\* the pairs of a value and a format the codec supports
RECURSIVE Encodable(_)
Encodable(value) ==
    \/ value.py = "array"
    \/ /\ value.py = "dict"
       /\ \A key \in DOMAIN value.items : Encodable(value.items[key])
Supported(value, value_format) ==
    \/ value.py = "array" /\ value_format \in {FormatNone, "array"}
    \/ value.py = "jagged" /\ value_format = "jagged"
    \/ value.py = "dict" /\ value_format \in {FormatNone, "hashmap"} /\ Encodable(value)

\* C7: a supported value under each of the three formats is encoded, and
\* decoding the encoding gives the value back.
RoundTrip ==
    Supported(codec.value, codec.value_format) =>
        /\ codec.stage # "input" => codec.err = Ok
        /\ codec.stage = "decoded" => codec.result = codec.value

\* the Nodes the call has created, and those of them of given kinds
Created == (call.base + 1)..Len(heap)
CreatedOf(names) == {c \in Created : heap[c].name \in names}

\* the operand is a Constant of Graph g created by the call, holding v
IsConstantOf(operand, v, g) ==
    /\ operand.t = "node"
    /\ operand.ref \in Created
    /\ heap[operand.ref].name = "Constant"
    /\ heap[operand.ref].analysis = g
    /\ heap[operand.ref].component_id \in DOMAIN analyses[g].release_values
    /\ analyses[g].release_values[heap[operand.ref].component_id].value = v

\* the operand is a Node created by the call, of the given kind, with exactly
\* the given argument names
IsCreated(operand, name, keys) ==
    /\ operand.t = "node"
    /\ operand.ref \in Created
    /\ heap[operand.ref].name = name
    /\ Keys(heap[operand.ref].arguments) = keys

\* C8: an argument x with x_min and x_max (no categories, no n) gets exactly
\* two wrappers: a Clamp of the original argument between Constants of the
\* two values, registered first, and an Impute of that Clamp, which becomes
\* the argument; no RowMin or RowMax is created.
ClampThenImpute ==
    (/\ call.op = "Component"
     /\ call.ctx # NoAnalysis
     /\ "x" \in Keys(call.arguments)
     /\ {"x_min", "x_max"} \subseteq DOMAIN call.constraints
     /\ {"x_categories", "x_n"} \cap DOMAIN call.constraints = {})
    => /\ IsCreated(Get(call.expanded, "x"), "Impute", {"data"})
       /\ IsCreated(Get(heap[Get(call.expanded, "x").ref].arguments, "data"),
                    "Clamp", {"data", "min", "max"})
       /\ \E clamp \in CreatedOf({"Clamp"}) :
             /\ Get(heap[Get(call.expanded, "x").ref].arguments, "data") = NodeRef(clamp)
             /\ clamp < Get(call.expanded, "x").ref
             /\ Get(heap[clamp].arguments, "data") = Get(call.arguments, "x")
             /\ IsConstantOf(Get(heap[clamp].arguments, "min"),
                             call.constraints["x_min"].val, call.ctx)
             /\ IsConstantOf(Get(heap[clamp].arguments, "max"),
                             call.constraints["x_max"].val, call.ctx)
       /\ Cardinality(CreatedOf({"Clamp", "Impute"})) = 2
       /\ CreatedOf({"RowMin", "RowMax"}) = {}

\* C9: an argument x with only x_n gets exactly one wrapper, a Resize of the
\* original argument with n a Constant of the value; no Clamp, Impute, RowMin
\* or RowMax is created and an argument without constraints stays as passed.
ResizeOnly ==
    (/\ call.op = "Component"
     /\ call.ctx # NoAnalysis
     /\ "x" \in Keys(call.arguments)
     /\ "x_n" \in DOMAIN call.constraints
     /\ {"x_min", "x_max", "x_categories"} \cap DOMAIN call.constraints = {})
    => /\ IsCreated(Get(call.expanded, "x"), "Resize", {"data", "n"})
       /\ Get(heap[Get(call.expanded, "x").ref].arguments, "data")
            = Get(call.arguments, "x")
       /\ IsConstantOf(Get(heap[Get(call.expanded, "x").ref].arguments, "n"),
                       call.constraints["x_n"].val, call.ctx)
       /\ Cardinality(CreatedOf({"Resize"}))
            = IF "y" \in Keys(call.arguments) /\ "y_n" \in DOMAIN call.constraints
              THEN 2 ELSE 1
       /\ CreatedOf({"Clamp", "Impute", "RowMin", "RowMax"}) = {}
       /\ \A key \in Keys(call.arguments) :
             (key = "x_m" \/ (key = "y" /\ "y_n" \notin DOMAIN call.constraints))
             => Get(call.expanded, key) = Get(call.arguments, key)

\* C10: with epsilon and delta both given (a number counting as a list of
\* one) the result is one Approximate record per pair, as many as the shorter
\* list has elements, the i-th from epsilon[i] and delta[i]; with epsilon
\* alone one Pure record per epsilon in order; with neither, nothing.
PrivacyUsagePairs ==
    usage.stage = "returned" =>
        /\ (usage.epsilon.t # "none" /\ usage.delta.t # "none")
           => /\ usage.result.t = "list"
              /\ Len(usage.result.v) =
                    IF Len(usage.epsilon.v) <= Len(usage.delta.v)
                    THEN Len(usage.epsilon.v) ELSE Len(usage.delta.v)
              /\ \A i \in 1..Len(usage.result.v) :
                    usage.result.v[i] =
                        [distance |-> "approximate", epsilon |-> usage.epsilon.v[i],
                         delta |-> usage.delta.v[i]]
        /\ (usage.epsilon.t # "none" /\ usage.delta.t = "none")
           => /\ usage.result.t = "list"
              /\ Len(usage.result.v) = Len(usage.epsilon.v)
              /\ \A i \in 1..Len(usage.result.v) :
                    /\ usage.result.v[i].distance = "pure"
                    /\ usage.result.v[i].epsilon = usage.epsilon.v[i]
        /\ (usage.epsilon.t = "none" /\ usage.delta.t = "none")
           => usage.result = Absent

\* privacy_usage(epsilon=[1.0, 2.0], delta=[1.0]) has returned one record
PrivacyUsagePairsWitness ==
    /\ usage.stage = "returned"
    /\ usage.epsilon = List(<<"1.0", "2.0">>)
    /\ usage.delta = List(<<"1.0">>)
    /\ Len(usage.result.v) = 1

\* the Components that are arguments of Component c
ArgumentNodes(c) ==
    {heap[c].arguments[i].v.ref :
        i \in {j \in 1..Len(heap[c].arguments) : heap[c].arguments[j].v.t = "node"}}

\* C11: every Node referenced by the arguments of a Node registered in a Graph
\* is registered in that same Graph, whatever blocks were entered and ended.
SameGraphArguments ==
    \A c \in 1..Len(heap) :
        heap[c].analysis # NoAnalysis
        => \A a \in ArgumentNodes(c) : heap[a].analysis = heap[c].analysis

\* C12: a Node constructed with a literal has the literal and its format tag
\* in its Graph's released values under its own id as soon as it has the id;
\* a Node constructed without a literal has no entry there.
LiteralStored ==
    (call.op = "Component" /\ call.err = Ok)
    => /\ heap[Len(heap)].analysis = call.ctx
       /\ IF call.value.t = "value"
          THEN /\ heap[Len(heap)].component_id
                    \in DOMAIN analyses[call.ctx].release_values
               /\ analyses[call.ctx].release_values[heap[Len(heap)].component_id]
                    = [value |-> call.value.val, value_format |-> call.value_format]
          ELSE heap[Len(heap)].component_id
                    \notin DOMAIN analyses[call.ctx].release_values
       /\ DOMAIN analyses[call.ctx].release_values
            = {heap[c].component_id : c \in CreatedOf({"Constant"})}

\* Component('Constant', value=[0, 10], value_format='array') has returned
LiteralStoredWitness ==
    /\ call.op = "Component"
    /\ call.err = Ok
    /\ call.value = Bare(Array1("int", <<"0", "10">>))
    /\ call.value_format = "array"
    /\ analyses[call.ctx].release_values[heap[Len(heap)].component_id].value_format
          = "array"

\* the format tags _serialize_value_proto knows
KnownFormats == {FormatNone, "array", "jagged", "hashmap"}

\* C13: encoding under a format tag other than array, jagged, hashmap or
\* none fails with the error for a bad format, whatever the value is, a dict
\* included.
BadFormatFails ==
    (codec.stage # "input" /\ codec.value_format \notin KnownFormats)
    => codec.err = "ValueError"

\* the constraint key <argument>_<suffix> of the argument x
KeyOfX(suffix) ==
    CASE suffix = "min" -> "x_min"
      [] suffix = "max" -> "x_max"
      [] suffix = "categories" -> "x_categories"
      [] suffix = "n" -> "x_n"

\* the constraints the call attaches to its argument x
AttachedToX == {suffix \in ALL_CONSTRAINTS : KeyOfX(suffix) \in DOMAIN call.constraints}

Wrapper(name, first, keys) == [name |-> name, first |-> first, keys |-> keys]

\* the wrappers a set of constraints asks for, innermost first
Wrappers(S) ==
    (IF {"min", "max"} \subseteq S
     THEN <<Wrapper("Clamp", "data", {"data", "min", "max"}),
            Wrapper("Impute", "data", {"data"})>>
     ELSE (IF "max" \in S THEN <<Wrapper("RowMax", "left", {"left", "right"})>> ELSE <<>>)
          \o (IF "min" \in S THEN <<Wrapper("RowMin", "left", {"left", "right"})>> ELSE <<>>))
    \o (IF "categories" \in S
        THEN <<Wrapper("Clamp", "data", {"data", "categories"})>> ELSE <<>>)
    \o (IF "n" \in S THEN <<Wrapper("Resize", "data", {"data", "n"})>> ELSE <<>>)

\* the operand is the outermost of the given wrappers, each created by the
\* call around the one before it, the innermost around the original
RECURSIVE IsChain(_, _, _)
IsChain(operand, wrappers, original) ==
    IF wrappers = <<>> THEN operand = original
    ELSE /\ IsCreated(operand, wrappers[Len(wrappers)].name, wrappers[Len(wrappers)].keys)
         /\ IsChain(Get(heap[operand.ref].arguments, wrappers[Len(wrappers)].first),
                    SubSeq(wrappers, 1, Len(wrappers) - 1), original)

\* C14: for every subset of {min, max, categories, n} attached to an argument
\* the wrappers made for it are, innermost first: Clamp then Impute (min and
\* max), or RowMax (max alone), or RowMin (min alone); then the Clamp of
\* categories; then Resize, each around the result of the step before.
WrapperOrder ==
    (/\ call.op = "Component"
     /\ call.ctx # NoAnalysis
     /\ "x" \in Keys(call.arguments))
    => /\ call.err = Ok
       /\ IsChain(Get(call.expanded, "x"), Wrappers(AttachedToX), Get(call.arguments, "x"))

\* C15: no Node's arguments hold an entry whose value is None: an argument
\* that is absent has no entry, also when an operator's other operand is None.
NoNullArguments ==
    \A c \in 1..Len(heap) :
        \A i \in 1..Len(heap[c].arguments) : heap[c].arguments[i].v.t # "none"

\* C16: a binary operator applied inside an open block registers one new Node
\* of its kind when the other operand is a Node, left and right being the two
\* operands; for a bare value it registers two, a Constant holding the value
\* as its literal and then the operator Node, with the next id, whose right is
\* that Constant.  All are registered in the active Graph.
OperatorNodes ==
    (/\ call.op = "operator"
     /\ ~call.unary
     /\ call.ctx # NoAnalysis
     /\ call.right.t # "none")
    => /\ call.err = Ok
       /\ heap[Len(heap)].name = call.name
       /\ heap[Len(heap)].analysis = call.ctx
       /\ heap[Len(heap)].component_id = analyses[call.ctx].component_count - 1
       /\ heap[Len(heap)].component_id \notin DOMAIN analyses[call.ctx].release_values
       /\ IF call.right.t = "node"
          THEN /\ Len(heap) = call.base + 1
               /\ heap[Len(heap)].arguments
                    = <<Entry("left", call.left), Entry("right", call.right)>>
          ELSE /\ Len(heap) = call.base + 2
               /\ heap[Len(heap)].arguments
                    = <<Entry("left", call.left), Entry("right", NodeRef(call.base + 1))>>
               /\ IsConstantOf(NodeRef(call.base + 1), call.right.val, call.ctx)
               /\ heap[call.base + 1].component_id = heap[Len(heap)].component_id - 1
               /\ heap[call.base + 1].arguments = <<>>

\* d ** 10 has returned: a Constant and a Power are new
OperatorNodesWitness ==
    /\ call.op = "operator"
    /\ call.err = Ok
    /\ call.name = "Power"
    /\ call.right = Bare(Int10)
    /\ Len(heap) = call.base + 2
    /\ heap[Len(heap)].name = "Power"

Attached(constraints, argument) ==
    {suffix \in ALL_CONSTRAINTS : Lookup(constraints, argument, suffix) # {}}

\* C19: a suffix applies to an argument only when the constraints hold
\* exactly the key <argument>_<suffix>; a key that only begins with the
\* argument's name makes no wrapper and does not make the construction fail.
ExactKeys ==
    (call.op = "Component" /\ call.ctx # NoAnalysis)
    => /\ call.err = Ok
       /\ \A i \in 1..Len(call.arguments) :
             Attached(call.constraints, call.arguments[i].k) = {}
             => Get(call.expanded, call.arguments[i].k) = call.arguments[i].v

\* C17: a release puts the parsed response in the place of the released
\* values: afterwards they hold exactly the ids of the response, each with the
\* decoded value, and nothing else of the Graph or of any Node has changed.
ReleaseReplaces ==
    [][(call.op = "ready" /\ call'.op = "release" /\ call'.err = Ok)
        => /\ DOMAIN analyses'[call'.g].release_values = DOMAIN call'.response
           /\ \A id \in DOMAIN call'.response :
                 analyses'[call'.g].release_values[id].value
                    = _parse_value_proto(call'.response[id].value)
           /\ analyses' = [analyses EXCEPT ![call'.g].release_values =
                                               analyses'[call'.g].release_values]
           /\ heap' = heap]_vars

\* the engine answered for the Add alone: the two literals are gone
ReleaseReplacesWitness ==
    /\ call.op = "release"
    /\ call.err = Ok
    /\ call.g = 1
    /\ analyses[1].component_count = 3
    /\ DOMAIN analyses[1].components = {0, 1, 2}
    /\ DOMAIN analyses[1].release_values = {2}

\* C20: after a release has been parsed, also one whose nodes carry privacy
\* usage records, the released values can be encoded again: the request of a
\* following validate, release, report or privacy_usage is built.
RequestAfterRelease ==
    call.op = "validate" => call.err = Ok

====
